---- MODULE Spec2Model ----
(***************************************************************************)
(* Model of reachability-monitor.py: the SDMonitor control session         *)
(* (__init__ / __enter__ / __exit__), read_directory, check_instances and  *)
(* the __main__ block that drives them.  The tor daemon (control port,     *)
(* SOCKS proxy, circuit table) is the environment.                         *)
(*                                                                         *)
(* Python strings that the program computes (response bodies, the version  *)
(* token) are sequences of one-character strings; Join turns such a        *)
(* sequence into a TLA+ string so that results read as in the source.      *)
(***************************************************************************)
EXTENDS Integers, Sequences, FiniteSets, TLC

\* ------------------------------------------------------------------ bounds
\* Number of entries of the directory.
NumInstances == 2
\* Number of circuits the daemon builds during one run.
MaxCircs == 2
\* Longest text following the "Powered by SecureDrop " literal in a body.
MaxTail == 3

\* --------------------------------------------------------------- constants
Unreachable == "unreachable"
DescriptorSentinel == "descriptor unavailable"
IntroPurpose == "HS_CLIENT_INTRO"
RendPurpose == "HS_CLIENT_REND"

\* The literal part of the pattern "Powered by SecureDrop [0-9.]+".
Literal ==
  <<"P","o","w","e","r","e","d"," ","b","y"," ",
    "S","e","c","u","r","e","D","r","o","p"," ">>

\* Characters the class [0-9.] accepts, among the characters bodies are made of.
TokenChars == {"2", "."}
\* Characters of the text that follows the literal in a body.
TailChars == {"2", ".", "<"}
Whitespace == {" "}

\* ------------------------------------------------------------ pure helpers
RECURSIVE Join(_)
Join(s) == IF s = <<>> THEN "" ELSE s[1] \o Join(Tail(s))

\* dict item assignment: d[k] = v
SetItem(d, k, v) == [f \in DOMAIN d \cup {k} |-> IF f = k THEN v ELSE d[f]]
\* k in d
Has(d, k) == k \in DOMAIN d

SeqsUpTo(S, n) == UNION {[1..k -> S] : k \in 0..n}

\* ---- re.search("Powered by SecureDrop [0-9.]+", response)
LiteralAt(body, i) ==
  /\ i + Len(Literal) - 1 <= Len(body)
  /\ \A k \in 1..Len(Literal) : body[i + k - 1] = Literal[k]

\* a match starts at i: the literal, then at least one character of the class
MatchAt(body, i) ==
  /\ LiteralAt(body, i)
  /\ i + Len(Literal) <= Len(body)
  /\ body[i + Len(Literal)] \in TokenChars

Found(body) == \E i \in 1..Len(body) : MatchAt(body, i)

\* leftmost match
MatchStart(body) ==
  CHOOSE i \in 1..Len(body) :
    MatchAt(body, i) /\ \A j \in 1..(i - 1) : ~MatchAt(body, j)

\* the class is greedy: the match ends at the last character of the run
MatchEnd(body) ==
  LET first == MatchStart(body) + Len(Literal)
  IN  CHOOSE e \in first..Len(body) :
        /\ \A k \in first..e : body[k] \in TokenChars
        /\ (e = Len(body) \/ body[e + 1] \notin TokenChars)

\* .group(0)
Group0(body) == SubSeq(body, MatchStart(body), MatchEnd(body))

\* str.split() with no argument: the maximal runs of non-whitespace
RECURSIVE SplitFrom(_, _, _)
SplitFrom(s, cur, acc) ==
  IF s = <<>>
  THEN IF cur = <<>> THEN acc ELSE Append(acc, cur)
  ELSE IF Head(s) \in Whitespace
       THEN SplitFrom(Tail(s), <<>>, IF cur = <<>> THEN acc ELSE Append(acc, cur))
       ELSE SplitFrom(Tail(s), Append(cur, Head(s)), acc)

Split(s) == SplitFrom(s, <<>>, <<>>)

\* seq[-1]
LastItem(s) == s[Len(s)]

\* str[:-1]
DropLast(s) == SubSeq(s, 1, Len(s) - 1)

\* version_str.split()[-1][:-1]
VersionOf(version_str) == Join(DropLast(LastItem(Split(version_str))))

\* ------------------------------------------------------------ environment
\* Response bodies a probed service may send.
Bodies ==
  { pre \o mid \o tail :
      pre \in {<<>>, <<"<">>},
      mid \in {Literal, <<>>},
      tail \in SeqsUpTo(TailChars, MaxTail) }

\* The two bodies of Bodies that the probes are answered with when the
\* daemon's circuits are followed: a page with the pattern and its period
\* (version "2"), and a page without the pattern.
SampleBodies ==
  { <<"<">> \o Literal \o <<"2", ".", "<">>,
    <<"<">> }

\* Decoded introduction-point contents a descriptor may carry.
Payloads == {"introduction-point a"}

\* The directory, as read_directory returns it.
Directory ==
  [i \in 1..NumInstances |->
     [organization |-> "org",
      landing_page |-> "https://landing",
      ths_address  |-> Join(<<"sd", ToString(i), ".onion">>)]]

\* What the daemon's circuits look like.
CircuitKinds ==
  { [purpose |-> IntroPurpose, path |-> <<"r1", "r2">>, reason |-> "TIMEOUT",
     remote_reason |-> "NONE", hs_state |-> "HSCI_CONNECTING"],
    [purpose |-> RendPurpose, path |-> <<"r3", "r4">>, reason |-> "NONE",
     remote_reason |-> "DESTROYED", hs_state |-> "HSCR_JOINED"],
    [purpose |-> "GENERAL", path |-> <<"r5">>, reason |-> "FINISHED",
     remote_reason |-> "NONE", hs_state |-> "NONE"] }

\* A circuit of the daemon; its last hop differs from circuit to circuit.
Circuit(id, kind) ==
  [id |-> id, purpose |-> kind.purpose,
   path |-> Append(kind.path, Join(<<"exit", ToString(id)>>)), reason |-> kind.reason,
   remote_reason |-> kind.remote_reason, hs_state |-> kind.hs_state]

\* The orders in which a set of circuits may be listed.
Listings(S) ==
  { s \in [1..Cardinality(S) -> S] : \A c \in S : \E k \in DOMAIN s : s[k] = c }

\* ------------------------------------------------------------------- state
VARIABLES
  pc,           \* position of the single thread of the program
  exc,          \* the exception propagating, "none" when there is none
  controller,   \* the control connection: "none", "open" or "closed"
  closeCount,   \* number of calls of controller.close()
  instances,    \* the list of instance dicts (empty before read_directory)
  idx,          \* index of the instance the for loop is at
  live,         \* the circuits of the daemon
  nextCirc,     \* identifier of the next circuit the daemon builds
  listing,      \* the part of get_circuits()'s result still to iterate
  intro_circs,  \* local list of check_instances
  rend_circs,   \* local list of check_instances
  version_str,  \* local of check_instances: the text the pattern matched
  log,          \* what print(instance) has written, in order
  results,      \* the result file: <<>> until written, then <<the list>>
  trace,        \* history: the steps taken, in order
  listed,       \* history: what get_circuits() returned, per instance
  born          \* history: per circuit, the instance being probed when built

vars == <<pc, exc, controller, closeCount, instances, idx, live, nextCirc,
          listing, intro_circs, rend_circs, version_str, log, results, trace, listed,
          born>>

Event(i, step, info, circ) == [inst |-> i, step |-> step, info |-> info, circ |-> circ]

Init ==
  /\ pc = "from_port"
  /\ exc = "none"
  /\ controller = "none"
  /\ closeCount = 0
  /\ instances = <<>>
  /\ idx = 0
  /\ live = {}
  /\ nextCirc = 1
  /\ listing = <<>>
  /\ intro_circs = <<>>
  /\ rend_circs = <<>>
  /\ version_str = <<>>
  /\ log = <<>>
  /\ results = <<>>
  /\ trace = <<>>
  /\ listed = [i \in 1..NumInstances |-> <<>>]
  /\ born = <<>>

\* ------------------------------------------------- SDMonitor: the session
\* __init__, line 22: Controller.from_port() connects to the control port.
FromPort ==
  /\ pc = "from_port"
  /\ \/ /\ controller' = "open"
        /\ pc' = "authenticate"
        /\ exc' = exc
     \/ /\ controller' = controller
        /\ pc' = "crashed"
        /\ exc' = "SocketError"
  /\ UNCHANGED <<born, closeCount, instances, idx, live, nextCirc, listing,
                 intro_circs, rend_circs, version_str, log, results, trace, listed>>

\* Mutant of Authenticate: a failed handshake is noted and the run goes on.
AuthenticateIgnoringFailure ==
  /\ pc = "authenticate"
  /\ \/ /\ pc' = "get_version"
        /\ exc' = exc
     \/ /\ pc' = "get_version"
        /\ exc' = "AuthenticationFailure"
  /\ UNCHANGED <<born, controller, closeCount, instances, idx, live, nextCirc, listing,
                 intro_circs, rend_circs, version_str, log, results, trace, listed>>

\* __init__, line 23: controller.authenticate(); a failure leaves __init__.
Authenticate ==
  /\ pc = "authenticate"
  /\ \/ /\ pc' = "get_version"
        /\ exc' = exc
     \/ /\ pc' = "crashed"
        /\ exc' = "AuthenticationFailure"
  /\ UNCHANGED <<born, controller, closeCount, instances, idx, live, nextCirc, listing,
                 intro_circs, rend_circs, version_str, log, results, trace, listed>>

\* __init__, line 25: controller.get_version(); then __enter__ returns self.
GetVersion ==
  /\ pc = "get_version"
  /\ \/ /\ pc' = "read_directory"
        /\ exc' = exc
     \/ /\ pc' = "crashed"
        /\ exc' = "ControllerError"
  /\ UNCHANGED <<born, controller, closeCount, instances, idx, live, nextCirc, listing,
                 intro_circs, rend_circs, version_str, log, results, trace, listed>>

\* Mutant of AfterExit: the dump is reached whether or not an exception left
\* the with block.
AfterExitAlwaysDump(e) == "dump"

\* Where the with block goes once __exit__ has run: on to the dump when nothing
\* propagates, otherwise the exception leaves the program.
AfterExit(e) == IF e = "none" THEN "dump" ELSE "crashed"

\* Lines 129-131 and 33-34: the with block is left, by check_instances
\* returning (e = "none") or by the exception e; __exit__ closes the
\* controller and returns None, so e goes on propagating.
Exit(e) ==
  /\ controller' = "closed"
  /\ closeCount' = closeCount + 1
  /\ exc' = e
  /\ pc' = AfterExit(e)

\* ------------------------------------------------------------ read_directory
\* The loop position after instance i: the next instance, or the return.
LoopFrom(i) == IF i <= NumInstances THEN "probe" ELSE "return"

ReadDirectory ==
  /\ pc = "read_directory"
  /\ \/ /\ instances' = Directory
        /\ idx' = 1
        /\ pc' = LoopFrom(1)
        /\ UNCHANGED <<exc, controller, closeCount>>
     \/ /\ Exit("URLError")
        /\ UNCHANGED <<instances, idx>>
  /\ UNCHANGED <<born, live, nextCirc, listing,
                 intro_circs, rend_circs, version_str, log, results, trace, listed>>

\* ----------------------------------------------------------- check_instances
\* Lines 67-72: the proxied fetch returned a body.  search() finds the pattern
\* or returns None, and None.group raises AttributeError, which no except
\* clause of the function catches.
ProbeResponseOf(bodies) ==
  /\ pc = "probe"
  /\ \E body \in bodies :
       IF Found(body)
       THEN /\ version_str' = Group0(body)
            /\ instances' = [instances EXCEPT
                 ![idx] = SetItem(@, "version", VersionOf(Group0(body)))]
            /\ trace' = trace \o
                 << Event(idx, "probe", "response", 0),
                    Event(idx, "classify", VersionOf(Group0(body)), 0) >>
            /\ pc' = "get_circuits"
            /\ UNCHANGED <<exc, controller, closeCount>>
       ELSE /\ trace' = Append(trace, Event(idx, "probe", "response", 0))
            /\ Exit("AttributeError")
            /\ UNCHANGED <<version_str, instances>>
  /\ UNCHANGED <<born, idx, live, nextCirc, listing,
                 intro_circs, rend_circs, log, results, listed>>

ProbeResponse == ProbeResponseOf(SampleBodies)

\* Mutant of ProbeProxyError: the except clause without its descriptor fetch.
ProbeProxyErrorNoFetch ==
  /\ pc = "probe"
  /\ instances' = [instances EXCEPT ![idx] = SetItem(@, "version", Unreachable)]
  /\ trace' = trace \o
       << Event(idx, "probe", "proxy_error", 0),
          Event(idx, "classify", Unreachable, 0) >>
  /\ pc' = "get_circuits"
  /\ UNCHANGED <<born, exc, controller, closeCount, idx, live, nextCirc, listing,
                 intro_circs, rend_circs, version_str, log, results, listed>>

\* Lines 73-75: SOCKS5Error, GeneralProxyError or URLError.
ProbeProxyError ==
  /\ pc = "probe"
  /\ instances' = [instances EXCEPT ![idx] = SetItem(@, "version", Unreachable)]
  /\ trace' = trace \o
       << Event(idx, "probe", "proxy_error", 0),
          Event(idx, "classify", Unreachable, 0) >>
  /\ pc' = "fetch"
  /\ UNCHANGED <<born, exc, controller, closeCount, idx, live, nextCirc, listing,
                 intro_circs, rend_circs, version_str, log, results, listed>>

\* Lines 68-69 raising anything else (a read timeout, a decoding error).
ProbeOtherError ==
  /\ pc = "probe"
  /\ trace' = Append(trace, Event(idx, "probe", "error", 0))
  /\ Exit("OSError")
  /\ UNCHANGED <<born, instances, idx, live, nextCirc, listing,
                 intro_circs, rend_circs, version_str, log, results, listed>>

\* Lines 84-85: the descriptor came back.
FetchDescriptor ==
  /\ pc = "fetch"
  /\ \E content \in Payloads :
       instances' = [instances EXCEPT ![idx] = SetItem(@, "intro_pts", content)]
  /\ trace' = Append(trace, Event(idx, "fetch", "descriptor", 0))
  /\ pc' = "get_circuits"
  /\ UNCHANGED <<born, exc, controller, closeCount, idx, live, nextCirc, listing,
                 intro_circs, rend_circs, version_str, log, results, listed>>

\* Mutant of FetchUnavailable: the except clause without line 87.
FetchUnavailableNoSentinel ==
  /\ pc = "fetch"
  /\ log' = Append(log, instances[idx])
  /\ trace' = trace \o
       << Event(idx, "fetch", "unavailable", 0), Event(idx, "emit", "partial", 0) >>
  /\ idx' = idx + 1
  /\ pc' = LoopFrom(idx + 1)
  /\ UNCHANGED <<born, exc, controller, closeCount, instances, live, nextCirc, listing,
                 intro_circs, rend_circs, version_str, results, listed>>

\* Mutant of FetchUnavailable: the except clause without line 89's continue.
FetchUnavailableFallsThrough ==
  /\ pc = "fetch"
  /\ instances' = [instances EXCEPT ![idx] = SetItem(@, "intro_pts", DescriptorSentinel)]
  /\ log' = Append(log, instances'[idx])
  /\ trace' = trace \o
       << Event(idx, "fetch", "unavailable", 0), Event(idx, "emit", "partial", 0) >>
  /\ pc' = "get_circuits"
  /\ UNCHANGED <<born, exc, controller, closeCount, idx, live, nextCirc, listing,
                 intro_circs, rend_circs, version_str, results, listed>>

\* Lines 86-89: stem.DescriptorUnavailable; print(instance); continue.
FetchUnavailable ==
  /\ pc = "fetch"
  /\ instances' = [instances EXCEPT ![idx] = SetItem(@, "intro_pts", DescriptorSentinel)]
  /\ log' = Append(log, instances'[idx])
  /\ trace' = trace \o
       << Event(idx, "fetch", "unavailable", 0), Event(idx, "emit", "partial", 0) >>
  /\ idx' = idx + 1
  /\ pc' = LoopFrom(idx + 1)
  /\ UNCHANGED <<born, exc, controller, closeCount, live, nextCirc, listing,
                 intro_circs, rend_circs, version_str, results, listed>>

\* Mutant of FetchOtherError: the failure is caught and the loop goes on.
FetchOtherErrorSwallowed ==
  /\ pc = "fetch"
  /\ trace' = Append(trace, Event(idx, "fetch", "error", 0))
  /\ idx' = idx + 1
  /\ pc' = LoopFrom(idx + 1)
  /\ UNCHANGED <<born, exc, controller, closeCount, instances, live, nextCirc, listing,
                 intro_circs, rend_circs, version_str, log, results, listed>>

\* Mutant of FetchOtherError: the fetch is attempted again after a failure.
FetchOtherErrorRetried ==
  /\ pc = "fetch"
  /\ trace' = Append(trace, Event(idx, "fetch", "error", 0))
  /\ pc' = "fetch"
  /\ UNCHANGED <<born, exc, controller, closeCount, instances, idx, live, nextCirc, listing,
                 intro_circs, rend_circs, version_str, log, results, listed>>

\* Lines 84-85 raising anything other than DescriptorUnavailable.
FetchOtherError ==
  /\ pc = "fetch"
  /\ trace' = Append(trace, Event(idx, "fetch", "error", 0))
  /\ Exit("ControllerError")
  /\ UNCHANGED <<born, instances, idx, live, nextCirc, listing,
                 intro_circs, rend_circs, version_str, log, results, listed>>

\* Mutant of FetchHangs: a deadline ends the wait and the instance is treated
\* as one whose descriptor is unavailable.
FetchHangsUntilDeadline ==
  /\ pc = "fetch"
  /\ trace' = Append(trace, Event(idx, "fetch", "hang", 0))
  /\ instances' = [instances EXCEPT ![idx] = SetItem(@, "intro_pts", DescriptorSentinel)]
  /\ idx' = idx + 1
  /\ pc' = LoopFrom(idx + 1)
  /\ UNCHANGED <<born, exc, controller, closeCount, live, nextCirc, listing,
                 intro_circs, rend_circs, version_str, log, results, listed>>

\* Line 84 never returning (the comment at lines 77-83).
FetchHangs ==
  /\ pc = "fetch"
  /\ trace' = Append(trace, Event(idx, "fetch", "hang", 0))
  /\ pc' = "hung"
  /\ UNCHANGED <<born, exc, controller, closeCount, instances, idx, live, nextCirc, listing,
                 intro_circs, rend_circs, version_str, log, results, listed>>

\* Lines 97-99 and 101-104: the dicts appended for a circuit.
IntroSnapshot(c) ==
  [path |-> c.path, reason |-> c.reason, remote_reason |-> c.remote_reason]

RendSnapshot(c) ==
  [path |-> c.path, state |-> c.hs_state, reason |-> c.reason,
   remote_reason |-> c.remote_reason]

\* Mutant of IntroAfter: line 96's test of the purpose left out.
IntroAfterAnyPurpose(circs, c) == Append(circs, IntroSnapshot(c))

\* Lines 96-99 and 100-104: the two lists after the loop body has seen c.
IntroAfter(circs, c) ==
  IF c.purpose = IntroPurpose THEN Append(circs, IntroSnapshot(c)) ELSE circs

RendAfter(circs, c) ==
  IF c.purpose = RendPurpose THEN Append(circs, RendSnapshot(c)) ELSE circs

\* The trace of the loop body's recording of c.
SnapshotEvents(i, c) ==
  IF c.purpose \in {IntroPurpose, RendPurpose}
  THEN << Event(i, "snapshot", c.purpose, c.id) >>
  ELSE << >>

\* Mutant of Closed: line 105 moved under the two purpose tests, so only a
\* circuit that was recorded is closed.
ClosedIfRecorded(circs, c) ==
  IF c.purpose \in {IntroPurpose, RendPurpose} THEN circs \ {c} ELSE circs

\* Mutant of Closed: line 105 left out, the circuit stays.
NotClosed(circs, c) == circs

\* Line 105: the daemon's circuits once close_circuit(c.id) has succeeded.
Closed(circs, c) == circs \ {c}

\* Mutant of GetCircuits: the listing is narrowed to the circuits built while
\* the current instance was probed.
GetCircuitsOwnOnly ==
  /\ pc = "get_circuits"
  /\ intro_circs' = <<>>
  /\ rend_circs' = <<>>
  /\ \/ /\ \E s \in Listings({c \in live : born[c.id] = idx}) :
             /\ listing' = s
             /\ listed' = [listed EXCEPT ![idx] = s]
        /\ trace' = Append(trace, Event(idx, "list", "listed", 0))
        /\ pc' = "inspect"
        /\ UNCHANGED <<exc, controller, closeCount>>
     \/ /\ trace' = Append(trace, Event(idx, "list", "error", 0))
        /\ Exit("ControllerError")
        /\ UNCHANGED <<listing, listed>>
  /\ UNCHANGED <<born, instances, idx, live, nextCirc, version_str, log, results>>

\* Mutant of GetCircuits: lines 92-93 hoisted out of the loop over the
\* instances, so the two lists are not emptied for each instance.
GetCircuitsListsKept ==
  /\ pc = "get_circuits"
  /\ UNCHANGED <<born, intro_circs, rend_circs>>
  /\ \/ /\ \E s \in Listings(live) :
             /\ listing' = s
             /\ listed' = [listed EXCEPT ![idx] = s]
        /\ trace' = Append(trace, Event(idx, "list", "listed", 0))
        /\ pc' = "inspect"
        /\ UNCHANGED <<exc, controller, closeCount>>
     \/ /\ trace' = Append(trace, Event(idx, "list", "error", 0))
        /\ Exit("ControllerError")
        /\ UNCHANGED <<listing, listed>>
  /\ UNCHANGED <<born, instances, idx, live, nextCirc, version_str, log, results>>

\* Lines 92-95: the two lists start empty and get_circuits() returns the
\* daemon's circuits, or raises.
GetCircuits ==
  /\ pc = "get_circuits"
  /\ intro_circs' = <<>>
  /\ rend_circs' = <<>>
  /\ \/ /\ \E s \in Listings(live) :
             /\ listing' = s
             /\ listed' = [listed EXCEPT ![idx] = s]
        /\ trace' = Append(trace, Event(idx, "list", "listed", 0))
        /\ pc' = "inspect"
        /\ UNCHANGED <<exc, controller, closeCount>>
     \/ /\ trace' = Append(trace, Event(idx, "list", "error", 0))
        /\ Exit("ControllerError")
        /\ UNCHANGED <<listing, listed>>
  /\ UNCHANGED <<born, instances, idx, live, nextCirc, version_str, log, results>>

\* Mutant of InspectCircuit: a closing that fails is attempted again until it
\* succeeds, instead of raising.
InspectCircuitRetriesClose ==
  /\ pc = "inspect"
  /\ listing # <<>>
  /\ LET c == Head(listing) IN
       \/ /\ c \in live
          /\ intro_circs' = IntroAfter(intro_circs, c)
          /\ rend_circs' = RendAfter(rend_circs, c)
          /\ live' = Closed(live, c)
          /\ listing' = Tail(listing)
          /\ trace' = trace \o SnapshotEvents(idx, c)
                        \o << Event(idx, "close", "closed", c.id) >>
          /\ pc' = "inspect"
          /\ UNCHANGED <<exc, controller, closeCount>>
       \/ /\ c \notin live
          /\ UNCHANGED <<pc, exc, controller, closeCount, live, listing,
                         intro_circs, rend_circs, trace>>
  /\ UNCHANGED <<born, instances, idx, nextCirc, version_str, log, results, listed>>

\* Lines 96-105, one iteration of the for loop: record the circuit according
\* to its purpose, then close it.  close_circuit raises when the daemon no
\* longer knows the circuit, and may raise for any circuit.
InspectCircuit ==
  /\ pc = "inspect"
  /\ listing # <<>>
  /\ LET c == Head(listing) IN
       /\ intro_circs' = IntroAfter(intro_circs, c)
       /\ rend_circs' = RendAfter(rend_circs, c)
       /\ \/ /\ c \in live
             /\ live' = Closed(live, c)
             /\ listing' = Tail(listing)
             /\ trace' = trace \o SnapshotEvents(idx, c)
                           \o << Event(idx, "close", "closed", c.id) >>
             /\ pc' = "inspect"
             /\ UNCHANGED <<exc, controller, closeCount>>
          \/ /\ trace' = trace \o SnapshotEvents(idx, c)
                           \o << Event(idx, "close", "error", c.id) >>
             /\ Exit("ControllerError")
             /\ UNCHANGED <<live, listing>>
  /\ UNCHANGED <<born, instances, idx, nextCirc, version_str, log, results, listed>>

\* Mutant of WithCircuits: line 108 left out.
WithIntroOnly(instance, intro, rend) == SetItem(instance, "intro_circs", intro)

\* Lines 107-108: the instance with the two lists stored.
WithCircuits(instance, intro, rend) ==
  SetItem(SetItem(instance, "intro_circs", intro), "rend_circs", rend)

\* Mutant of Printed: line 110's test left out, every stored instance printed.
PrintedAlways(instance) == << instance >>

\* Lines 110-111: what print adds to the output for a stored instance.
Printed(instance) ==
  IF instance["version"] = Unreachable THEN << instance >> ELSE << >>

\* Mutant of StoreCircuits: lines 110-111 placed before lines 107-108.
StoreCircuitsPrintFirst ==
  /\ pc = "inspect"
  /\ listing = <<>>
  /\ instances' = [instances EXCEPT ![idx] = WithCircuits(@, intro_circs, rend_circs)]
  /\ log' = log \o Printed(instances[idx])
  /\ trace' = trace
                \o [k \in 1..Len(Printed(instances[idx])) |-> Event(idx, "emit", "full", 0)]
                \o << Event(idx, "store", "stored", 0) >>
  /\ idx' = idx + 1
  /\ pc' = LoopFrom(idx + 1)
  /\ UNCHANGED <<born, exc, controller, closeCount, live, nextCirc, listing,
                 intro_circs, rend_circs, version_str, results, listed>>

\* Lines 107-111, after the for loop over the circuits has ended.
StoreCircuits ==
  /\ pc = "inspect"
  /\ listing = <<>>
  /\ instances' = [instances EXCEPT ![idx] = WithCircuits(@, intro_circs, rend_circs)]
  /\ log' = log \o Printed(instances'[idx])
  /\ trace' = trace \o << Event(idx, "store", "stored", 0) >>
                \o [k \in 1..Len(Printed(instances'[idx])) |-> Event(idx, "emit", "full", 0)]
  /\ idx' = idx + 1
  /\ pc' = LoopFrom(idx + 1)
  /\ UNCHANGED <<born, exc, controller, closeCount, live, nextCirc, listing,
                 intro_circs, rend_circs, version_str, results, listed>>

\* Line 113: return instances; the with block of line 129 is left.
Return ==
  /\ pc = "return"
  /\ Exit("none")
  /\ UNCHANGED <<born, instances, idx, live, nextCirc, listing,
                 intro_circs, rend_circs, version_str, log, results, trace, listed>>

\* ------------------------------------------------------------------ __main__
\* Lines 133-134: json.dump(instances, fh).
Dump ==
  /\ pc = "dump"
  /\ results' = << instances >>
  /\ pc' = "done"
  /\ UNCHANGED <<born, exc, controller, closeCount, instances, idx, live, nextCirc, listing,
                 intro_circs, rend_circs, version_str, log, trace, listed>>

\* --------------------------------------------------------------- the daemon
\* The daemon builds circuits while a proxied fetch (line 68) is in progress;
\* the program sees them at its next get_circuits().
NewCircuit ==
  /\ pc = "probe"
  /\ nextCirc <= MaxCircs
  /\ \E kind \in CircuitKinds : live' = live \cup {Circuit(nextCirc, kind)}
  /\ nextCirc' = nextCirc + 1
  /\ born' = Append(born, idx)
  /\ UNCHANGED <<pc, exc, controller, closeCount, instances, idx, listing,
                 intro_circs, rend_circs, version_str, log, results, trace, listed>>

\* The daemon drops a circuit on its own.  The program can tell only for the
\* circuit it is about to close: close_circuit then raises.
CircuitExpires ==
  /\ pc = "inspect"
  /\ listing # <<>>
  /\ Head(listing) \in live
  /\ live' = live \ {Head(listing)}
  /\ UNCHANGED <<born, pc, exc, controller, closeCount, instances, idx, nextCirc, listing,
                 intro_circs, rend_circs, version_str, log, results, trace, listed>>

\* ------------------------------------------------------------ specification
Next ==
  \/ FromPort
  \/ Authenticate
  \/ GetVersion
  \/ ReadDirectory
  \/ ProbeResponse
  \/ ProbeProxyError
  \/ ProbeOtherError
  \/ FetchDescriptor
  \/ FetchUnavailable
  \/ FetchOtherError
  \/ FetchHangs
  \/ GetCircuits
  \/ InspectCircuit
  \/ StoreCircuits
  \/ Return
  \/ Dump
  \/ NewCircuit
  \/ CircuitExpires

Spec == Init /\ [][Next]_vars

\* The same program answered with every body of Bodies, by a daemon that
\* builds no circuit: the loop over the circuits has nothing to iterate.
ProbeAnyBody == ProbeResponseOf(Bodies)

\* The steps of the program itself, the daemon's left out.
Program ==
  \/ FromPort
  \/ Authenticate
  \/ GetVersion
  \/ ReadDirectory
  \/ ProbeResponse
  \/ ProbeProxyError
  \/ ProbeOtherError
  \/ FetchDescriptor
  \/ FetchUnavailable
  \/ FetchOtherError
  \/ FetchHangs
  \/ GetCircuits
  \/ InspectCircuit
  \/ StoreCircuits
  \/ Return
  \/ Dump

\* The program is one thread that runs whenever it has a step to take
\* (lines 129-134 call straight through; nothing schedules or suspends it).
LiveSpec == Init /\ [][Next]_vars /\ WF_vars(Program)

ParseNext ==
  \/ FromPort
  \/ Authenticate
  \/ GetVersion
  \/ ReadDirectory
  \/ ProbeAnyBody
  \/ ProbeProxyError
  \/ ProbeOtherError
  \/ FetchDescriptor
  \/ FetchUnavailable
  \/ FetchOtherError
  \/ FetchHangs
  \/ GetCircuits
  \/ StoreCircuits
  \/ Return
  \/ Dump

ParseSpec == Init /\ [][ParseNext]_vars

\* ===================================================================== claims
\* Reading the history.
Instances == 1..NumInstances

\* Instance i has left the loop body (by line 89's continue or after line 111).
Done(i) == idx > i

\* The positions of the trace where instance i took the given step.
Steps(i, step) == {k \in DOMAIN trace : trace[k].inst = i /\ trace[k].step = step}

\* Instance i took the given step.
Did(i, step) == \E k \in DOMAIN trace : trace[k].inst = i /\ trace[k].step = step

\* Instance i took the given step with the given outcome.
Took(i, step, info) ==
  \E k \in DOMAIN trace :
    trace[k].inst = i /\ trace[k].step = step /\ trace[k].info = info

\* The loop over the directory has run to its end.
LoopEnded == idx = NumInstances + 1

\* The version tokens the pattern's class can produce.
VersionTokens == {Join(t) : t \in SeqsUpTo(TokenChars, MaxTail) \ {<<>>}}

\* C1: when the loop over the directory has ended, every instance has a
\* version, and it is a non-empty version token or "unreachable"; never unset,
\* never the empty string.  As stated; a body whose version token is a single
\* character refutes it (the token loses its last character, line 72).
C1_VersionSetAndNonEmpty ==
  LoopEnded =>
    \A i \in Instances :
      /\ Has(instances[i], "version")
      /\ instances[i]["version"] # ""
      /\ instances[i]["version"] \in VersionTokens \cup {Unreachable}

\* C2, as stated: intro_pts is present exactly when the version is
\* "unreachable" and the descriptor fetch did not raise DescriptorUnavailable.
C2_IntroPtsAbsentWhenUnavailable ==
  \A i \in Instances :
    Done(i) =>
      ( Has(instances[i], "intro_pts")
          <=> ( /\ instances[i]["version"] = Unreachable
                /\ ~Took(i, "fetch", "unavailable") ) )

\* C2, amended: for an instance whose processing has completed, intro_pts is
\* present exactly when the version is "unreachable"; it is the sentinel
\* "descriptor unavailable" when the fetch raised DescriptorUnavailable and
\* the descriptor's content otherwise.
C2_IntroPtsIffUnreachable ==
  \A i \in Instances :
    Done(i) =>
      /\ Has(instances[i], "intro_pts") <=> instances[i]["version"] = Unreachable
      /\ Took(i, "fetch", "unavailable") =>
           /\ Has(instances[i], "intro_pts")
           /\ instances[i]["intro_pts"] = DescriptorSentinel
      /\ Took(i, "fetch", "descriptor") =>
           /\ Has(instances[i], "intro_pts")
           /\ instances[i]["intro_pts"] \in Payloads
      /\ instances[i]["version"] = Unreachable =>
           Took(i, "fetch", "unavailable") \/ Took(i, "fetch", "descriptor")

\* C2, witness: two completed instances, one with the sentinel after an
\* unavailable descriptor and one with a descriptor's content.
C2_Witness ==
  \E i, j \in Instances :
    /\ Done(i) /\ Done(j)
    /\ Took(i, "fetch", "unavailable")
    /\ instances[i]["intro_pts"] = DescriptorSentinel
    /\ Took(j, "fetch", "descriptor")
    /\ instances[j]["intro_pts"] \in Payloads

\* The record of instance i as it is right after the unavailable-descriptor
\* branch: the directory's fields, the version and the sentinel, nothing else.
PartialRecord(i) ==
  SetItem(SetItem(Directory[i], "version", Unreachable), "intro_pts", DescriptorSentinel)

\* C3: when the descriptor fetch of an instance raises DescriptorUnavailable,
\* intro_pts is the sentinel, the partial record is printed at once, no
\* circuit is listed, recorded or closed for the instance, intro_circs and
\* rend_circs stay absent, and the run goes on with the next instance.
C3_UnavailableExitsEarly ==
  \A k \in DOMAIN trace :
    trace[k].step = "fetch" /\ trace[k].info = "unavailable" =>
      LET i == trace[k].inst IN
        /\ instances[i] = PartialRecord(i)
        /\ k + 1 \in DOMAIN trace
        /\ trace[k + 1].step = "emit" /\ trace[k + 1].inst = i
        /\ \E n \in DOMAIN log : log[n] = PartialRecord(i)
        /\ ~Did(i, "list")
        /\ ~Did(i, "snapshot")
        /\ ~Did(i, "close")
        /\ ~Did(i, "store")
        /\ ~Has(instances[i], "intro_circs")
        /\ ~Has(instances[i], "rend_circs")
        /\ Done(i)
        /\ Len(trace) = k + 1 =>
             /\ idx = i + 1
             /\ exc = "none"
             /\ i < NumInstances => pc = "probe"
             /\ i = NumInstances => pc \in {"return", "dump", "done"}
        /\ \A n \in DOMAIN trace : n > k + 1 => trace[n].inst > i

\* C3, witness: the first instance took the early exit while a circuit was
\* live, and the second instance has been probed.
C3_Witness ==
  /\ NumInstances >= 2
  /\ Took(1, "fetch", "unavailable")
  /\ live # {}
  /\ Did(2, "probe")

\* C4, as stated: for every instance whose processing has completed, whatever
\* the probe outcome, the circuits were listed and both lists are stored.
C4_CircuitsForEveryInstance ==
  \A i \in Instances :
    Done(i) =>
      /\ Did(i, "list")
      /\ Has(instances[i], "intro_circs")
      /\ Has(instances[i], "rend_circs")

\* C4, amended: for every instance whose processing has completed otherwise
\* than by the unavailable-descriptor early exit (a version was read, or the
\* instance is unreachable and its descriptor was fetched), the circuits were
\* listed and both lists are stored.
C4_CircuitsUnlessUnavailable ==
  \A i \in Instances :
    Done(i) /\ ~Took(i, "fetch", "unavailable") =>
      /\ Did(i, "list")
      /\ Has(instances[i], "intro_circs")
      /\ Has(instances[i], "rend_circs")

\* C4, witness: a completed instance with a version token and a completed
\* unreachable instance with its descriptor, both with their two lists.
C4_Witness ==
  \E i, j \in Instances :
    /\ Done(i) /\ Done(j)
    /\ instances[i]["version"] # Unreachable
    /\ Has(instances[i], "intro_circs") /\ Has(instances[i], "rend_circs")
    /\ Took(j, "fetch", "descriptor")
    /\ Has(instances[j], "intro_circs") /\ Has(instances[j], "rend_circs")

\* The circuits of a listing that have the given purpose, in listing order.
OfPurpose(s, purpose) ==
  LET Wanted(c) == c.purpose = purpose IN SelectSeq(s, Wanted)

\* Instance i has its two lists stored.
Stored(i) == Did(i, "store")

\* C5: once step 4 of an instance has ended, intro_circs holds one snapshot
\* (path, reason, remote_reason) per listed circuit of purpose
\* HS_CLIENT_INTRO and rend_circs one snapshot (path, state, reason,
\* remote_reason) per listed circuit of purpose HS_CLIENT_REND, both in
\* listing order, and each of those circuits has been closed.
C5_SnapshotPerCircuitAndClosed ==
  \A i \in Instances :
    Stored(i) =>
      LET intro == OfPurpose(listed[i], IntroPurpose)
          rend  == OfPurpose(listed[i], RendPurpose)
      IN  /\ instances[i]["intro_circs"] =
               [k \in 1..Len(intro) |->
                  [path |-> intro[k].path, reason |-> intro[k].reason,
                   remote_reason |-> intro[k].remote_reason]]
          /\ instances[i]["rend_circs"] =
               [k \in 1..Len(rend) |->
                  [path |-> rend[k].path, state |-> rend[k].hs_state,
                   reason |-> rend[k].reason,
                   remote_reason |-> rend[k].remote_reason]]
          /\ \A k \in DOMAIN listed[i] :
               listed[i][k].purpose \in {IntroPurpose, RendPurpose} =>
                 /\ listed[i][k] \notin live
                 /\ \E n \in DOMAIN trace :
                      /\ trace[n].inst = i
                      /\ trace[n].step = "close"
                      /\ trace[n].circ = listed[i][k].id
                      /\ trace[n].info = "closed"

\* C5, witness: an instance listed one HS_CLIENT_INTRO and one HS_CLIENT_REND
\* circuit and stored one entry in each list.
C5_Witness ==
  \E i \in Instances :
    /\ Stored(i)
    /\ Len(listed[i]) = 2
    /\ Len(OfPurpose(listed[i], IntroPurpose)) = 1
    /\ Len(OfPurpose(listed[i], RendPurpose)) = 1
    /\ Len(instances[i]["intro_circs"]) = 1
    /\ Len(instances[i]["rend_circs"]) = 1
    /\ live = {}

\* The positions of the trace where a snapshot was taken.
Snapshots == {k \in DOMAIN trace : trace[k].step = "snapshot"}

\* C6: over the whole run no circuit is snapshotted twice, neither into two
\* instances' records nor twice into one, and each snapshot is followed in
\* the same pass by the close_circuit call for its circuit.
C6_SnapshotAtMostOnce ==
  /\ \A k, n \in Snapshots : k # n => trace[k].circ # trace[n].circ
  /\ \A k \in Snapshots :
       /\ k + 1 \in DOMAIN trace
       /\ trace[k + 1].step = "close"
       /\ trace[k + 1].circ = trace[k].circ
       /\ trace[k + 1].inst = trace[k].inst

\* C6, witness: two instances each took a snapshot in their own pass.
C6_Witness ==
  \E k, n \in Snapshots : trace[k].inst < trace[n].inst

\* The program has ended, normally or by an exception leaving it.
Ended == pc \in {"done", "crashed"}

\* C7: a control connection that was established is closed exactly once by
\* the time the program ends, however it ends, opening failures after the
\* connection included.  As stated; a failing authenticate() refutes it.
C7_ClosedExactlyOnce ==
  /\ closeCount <= 1
  /\ Ended /\ controller # "none" => closeCount = 1

\* The rank of a step within the processing of one instance.
Rank(step) ==
  CASE step = "probe"    -> 1
    [] step = "classify" -> 2
    [] step = "fetch"    -> 3
    [] step = "list"     -> 4
    [] step = "snapshot" -> 5
    [] step = "close"    -> 5
    [] step = "store"    -> 6
    [] step = "emit"     -> 7

\* C8: a probe failing at the proxy layer sets version to "unreachable" and
\* is followed by a descriptor fetch for that instance, the run going on; and
\* a descriptor fetch is attempted only for an instance whose probe failed so.
C8_FetchIffProxyError ==
  \A k \in DOMAIN trace :
    LET i == trace[k].inst IN
      /\ trace[k].step = "fetch" =>
           /\ k >= 3
           /\ trace[k - 2] = Event(i, "probe", "proxy_error", 0)
           /\ trace[k - 1] = Event(i, "classify", Unreachable, 0)
           /\ instances[i]["version"] = Unreachable
      /\ trace[k].step = "probe" /\ trace[k].info = "proxy_error" =>
           /\ instances[i]["version"] = Unreachable
           /\ k + 1 \in DOMAIN trace
           /\ trace[k + 1] = Event(i, "classify", Unreachable, 0)
           /\ Len(trace) = k + 1 => pc = "fetch" /\ idx = i /\ exc = "none"
           /\ Len(trace) > k + 1 => trace[k + 2].step = "fetch" /\ trace[k + 2].inst = i
      /\ trace[k].step = "probe" /\ trace[k].info # "proxy_error" => ~Did(i, "fetch")

\* C8, witness: a probe failed at the proxy layer, the descriptor was
\* fetched, a later instance answered its probe and was completed without a
\* fetch.
C8_Witness ==
  \E i, j \in Instances :
    /\ i < j
    /\ Took(i, "probe", "proxy_error")
    /\ Did(i, "fetch")
    /\ Took(j, "probe", "response")
    /\ Done(j)
    /\ ~Did(j, "fetch")

\* C9: no retries: each instance is probed at most once and has at most one
\* descriptor fetch attempted.
C9_NoRetries ==
  \A i \in Instances :
    /\ Cardinality(Steps(i, "probe")) <= 1
    /\ Cardinality(Steps(i, "fetch")) <= 1

\* C9, witness: the run has ended after a probe that failed and a descriptor
\* fetch that failed, each attempted once.
C9_Witness ==
  /\ Ended
  /\ \E i \in Instances :
       /\ Took(i, "probe", "proxy_error")
       /\ Took(i, "fetch", "error")
       /\ Cardinality(Steps(i, "fetch")) = 1

\* The steps that may directly follow a step within one instance.
Follows(step) ==
  CASE step = "probe"    -> {"classify"}
    [] step = "classify" -> {"fetch", "list"}
    [] step = "fetch"    -> {"list", "emit"}
    [] step = "list"     -> {"snapshot", "close", "store"}
    [] step = "snapshot" -> {"close"}
    [] step = "close"    -> {"snapshot", "close", "store"}
    [] step = "store"    -> {"emit"}
    [] step = "emit"     -> {}

\* C10: instances are processed one after the other in directory order: the
\* first step is the probe of instance 1, a step is followed by a later step
\* of the same instance (probe, classification, descriptor fetch, circuit
\* listing, snapshots and closings, storing, printing, in that order) or,
\* once the instance has gone through its last step, by the probe of the
\* next instance; the loop is at the instance of the last step or just past it.
C10_SequentialInOrder ==
  /\ trace # <<>> => trace[1].inst = 1 /\ trace[1].step = "probe"
  /\ \A k \in DOMAIN trace :
       /\ trace[k].inst \in Instances
       /\ Rank(trace[k].step) \in 1..7
       /\ k > 1 =>
            \/ /\ trace[k].inst = trace[k - 1].inst
               /\ trace[k].step \in Follows(trace[k - 1].step)
               /\ Rank(trace[k - 1].step) <= Rank(trace[k].step)
            \/ /\ trace[k].inst = trace[k - 1].inst + 1
               /\ trace[k].step = "probe"
               /\ \/ trace[k - 1].step = "emit"
                  \/ /\ trace[k - 1].step = "store"
                     /\ instances[trace[k - 1].inst]["version"] # Unreachable
  /\ trace # <<>> =>
       LET last == trace[Len(trace)] IN
         \/ idx = last.inst
         \/ /\ idx = last.inst + 1
            /\ last.step \in {"store", "emit"}

\* C10, witness: the first instance went through probe, fetch, listing, a
\* snapshot with its closing, storing and printing, and the second instance
\* has been probed.
C10_Witness ==
  /\ NumInstances >= 2
  /\ Took(1, "fetch", "descriptor")
  /\ Did(1, "snapshot")
  /\ Did(1, "emit")
  /\ Did(2, "classify")

\* Position k of the trace is a step that raised what no except clause of
\* check_instances catches: a control-channel or other failure, or a body
\* without the pattern (a response that no classification follows).
Raised(k) ==
  \/ trace[k].info = "error"
  \/ /\ trace[k].step = "probe"
     /\ trace[k].info = "response"
     /\ (k = Len(trace) \/ trace[k + 1].step # "classify")

\* What a failure that is not absorbed leaves behind: it is the last step
\* taken, the exception is on its way out, and the loop stands at the
\* instance that failed.
C11_Propagated ==
  \A k \in DOMAIN trace :
    Raised(k) =>
      /\ k = Len(trace)
      /\ exc # "none"
      /\ pc = "crashed"
      /\ idx = trace[k].inst

\* What every step keeps: nothing runs once the exception has left, and the
\* record of an instance that has completed is never touched again.
C11_Kept ==
  /\ pc # "crashed"
  /\ \A i \in Instances : Done(i) => instances'[i] = instances[i]

\* C11: a failure that is neither a proxy failure nor DescriptorUnavailable
\* (no pattern in the body, a control-channel failure in the fetch, the
\* listing or a closing) is not swallowed: it propagates out of
\* check_instances and no further step of the instance runs, and the records
\* of the instances completed before are left as they were on completion.
C11_FailurePropagates == [] C11_Propagated /\ [][C11_Kept]_vars

\* C11, witness: the first instance completed with its circuits stored, and
\* a closing failed during the second, which ended the run.
C11_Witness ==
  /\ NumInstances >= 2
  /\ Stored(1)
  /\ idx = 2
  /\ Took(2, "close", "error")
  /\ pc = "crashed"
  /\ exc = "ControllerError"

\* A version token without the periods it ends with.
RECURSIVE StripPeriods(_)
StripPeriods(token) ==
  IF token # <<>> /\ token[Len(token)] = "."
  THEN StripPeriods(DropLast(token))
  ELSE token

\* The probe of the current instance has just found the pattern and recorded
\* a version from version_str.
JustMatched ==
  /\ pc = "get_circuits"
  /\ trace # <<>>
  /\ trace[Len(trace)].step = "classify"
  /\ trace[Len(trace)].info # Unreachable

\* C12: for every body in which the pattern is found, the recorded version is
\* the matched version token with only its trailing punctuation stripped,
\* also when no period follows the token.  As stated; a token that no period
\* follows refutes it (line 72 drops the token's last character, a digit).
C12_VersionIsStrippedToken ==
  JustMatched =>
    instances[idx]["version"] = Join(StripPeriods(LastItem(Split(version_str))))

\* The positions of the output that show instance i.
LogOf(i) == {k \in DOMAIN log : log[k]["ths_address"] = Directory[i]["ths_address"]}

\* C13: an instance whose processing has ended with version "unreachable"
\* is in the output exactly once, put there while it was processed: as the
\* partial record (no circuit fields) on the descriptor-unavailable exit, as
\* the full record after the circuits were stored otherwise.  An instance
\* whose version is a version token is never in the output.
C13_UnreachableEmittedOnce ==
  \A i \in Instances :
    Done(i) =>
      IF instances[i]["version"] = Unreachable
      THEN /\ Cardinality(LogOf(i)) = 1
           /\ Cardinality(Steps(i, "emit")) = 1
           /\ \A k \in LogOf(i) :
                IF Took(i, "fetch", "unavailable")
                THEN /\ log[k] = PartialRecord(i)
                     /\ Took(i, "emit", "partial")
                ELSE /\ log[k] = instances[i]
                     /\ Stored(i)
                     /\ Took(i, "emit", "full")
      ELSE /\ LogOf(i) = {}
           /\ ~Did(i, "emit")

\* C13, witness: an unreachable instance with its circuits stored and a
\* reachable one have both been processed, and the output holds one record.
C13_Witness ==
  /\ NumInstances >= 2
  /\ LoopEnded
  /\ \E i, j \in Instances :
       /\ instances[i]["version"] = Unreachable
       /\ Stored(i)
       /\ instances[j]["version"] # Unreachable
       /\ Stored(j)
  /\ Len(log) = 1

\* The result file holds the whole sequence, one record per directory entry
\* in the directory's order, each with a version.
FullResults ==
  /\ Len(results) = 1
  /\ Len(results[1]) = NumInstances
  /\ \A i \in Instances :
       /\ results[1][i]["ths_address"] = Directory[i]["ths_address"]
       /\ Has(results[1][i], "version")

\* C14, as stated: every run that got past the session setup and read its
\* directory ends with the result file written, holding the full sequence
\* with a version in every record, also when an instance's check failed.
C14_ResultFileAlways ==
  (Ended /\ controller = "closed" /\ idx >= 1) => FullResults

\* C14, amended: the result file is written exactly by the runs in which
\* check_instances returns, and then holds the full sequence with a version
\* in every record; a run that a failure ends writes no file.
C14_ResultFileIffReturned ==
  /\ pc = "done" => (FullResults /\ results[1] = instances /\ exc = "none")
  /\ pc # "done" => results = <<>>
  /\ pc = "crashed" => exc # "none"
  /\ LoopEnded => (pc \in {"return", "dump", "done"} /\ exc = "none")

\* C14, witness: a run has ended with its file written, one of the records
\* being an unreachable instance.
C14_Witness ==
  /\ pc = "done"
  /\ FullResults
  /\ \E i \in Instances : results[1][i]["version"] = Unreachable

\* SDMonitor() has returned: the connection, the handshake and the version
\* query all succeeded (a run that crashed later has been through __exit__).
SessionOpened ==
  /\ pc \notin {"from_port", "authenticate", "get_version"}
  /\ pc = "crashed" => closeCount > 0

\* Without an opened session nothing has been read, probed, fetched, listed
\* or closed, and a failed connection or handshake has ended the run.
C15_NothingWithoutSession ==
  /\ exc \in {"SocketError", "AuthenticationFailure"} =>
       (pc = "crashed" /\ ~SessionOpened)
  /\ ~SessionOpened =>
       (trace = <<>> /\ instances = <<>> /\ idx = 0 /\ closeCount = 0)

\* Every step that reads the directory, probes, fetches, lists or closes is
\* taken with the session opened and not yet closed; a closed session is not
\* opened again and a run that crashed takes no further step.
C15_WithinSession ==
  /\ pc # "crashed"
  /\ (trace' # trace \/ instances' # instances) =>
       (SessionOpened /\ controller = "open")
  /\ controller = "closed" => controller' = "closed"

\* C15: opening the session is fatal on failure and bounds every use of the
\* control channel: when connecting or authenticating fails the run ends
\* without retry and without any directory read, probe, descriptor fetch,
\* listing or closing; every fetch, listing and closing happens after the
\* session was opened and before it is closed.
C15_SessionBoundsUse == [] C15_NothingWithoutSession /\ [][C15_WithinSession]_vars

\* C15, witness: the handshake failed after the connection was made, and the
\* run has ended with nothing read or probed.
C15_Witness ==
  /\ exc = "AuthenticationFailure"
  /\ pc = "crashed"
  /\ controller = "open"
  /\ trace = <<>>
  /\ instances = <<>>

\* The circuits of a listing, as a set.
Range(s) == {s[k] : k \in DOMAIN s}

\* C16: a pass of enumeration and closing over an empty circuit set records
\* no snapshot, closes nothing, leaves the set empty and stores empty
\* intro_circs and rend_circs, however many times it is run; and a pass that
\* follows a completed pass sees none of the circuits that pass saw, so
\* without a new circuit in between it records and closes nothing.
C16_SecondPassIsNoOp ==
  /\ \A j \in Instances :
       (Stored(j) /\ listed[j] = <<>>) =>
         /\ instances[j]["intro_circs"] = <<>>
         /\ instances[j]["rend_circs"] = <<>>
         /\ ~Did(j, "snapshot")
         /\ ~Did(j, "close")
  /\ \A i, j \in Instances :
       (i < j /\ Stored(i) /\ Took(j, "list", "listed")) =>
         Range(listed[i]) \cap Range(listed[j]) = {}
  /\ (pc = "inspect" /\ listed[idx] = <<>>) => live = {}

\* C16, witness: a first pass recorded and closed an introduction circuit,
\* and the pass of the next instance, with no new circuit in between, found
\* nothing and stored two empty lists.
C16_Witness ==
  /\ NumInstances >= 2
  /\ Stored(1)
  /\ Stored(2)
  /\ instances[1]["intro_circs"] # <<>>
  /\ listed[2] = <<>>
  /\ instances[2]["intro_circs"] = <<>>
  /\ instances[2]["rend_circs"] = <<>>
  /\ live = {}

\* C17: a descriptor fetch that never returns stalls the whole audit: it
\* stays the last step ever taken, so no later instance is probed and no
\* circuit is listed or closed, check_instances does not return, the control
\* session is never closed and no result is written; nothing in the run
\* ends the wait.
C17_HangStallsAudit ==
  \A k \in DOMAIN trace :
    (trace[k].step = "fetch" /\ trace[k].info = "hang") =>
      /\ k = Len(trace)
      /\ pc = "hung"
      /\ idx = trace[k].inst
      /\ exc = "none"
      /\ controller = "open"
      /\ closeCount = 0
      /\ results = <<>>
      /\ ~Did(idx, "list")

\* C17, witness: the fetch for the first instance never returned while a
\* circuit is live and a second instance is waiting.
C17_Witness ==
  /\ NumInstances >= 2
  /\ Took(1, "fetch", "hang")
  /\ pc = "hung"
  /\ live # {}

\* check_instances has returned, or a failure has left it.
Returned == pc \in {"dump", "done"}
Propagated == pc = "crashed"

\* Every instance of the directory has been probed once and has completed.
EachHandledOnce ==
  \A i \in Instances : Done(i) /\ Cardinality(Steps(i, "probe")) = 1

\* C18: if every blocking call returns (no fetch hangs), then check_instances
\* eventually terminates: it returns, having handled every instance of the
\* directory exactly once, or a failure propagates.
C18_Terminates ==
  /\ [](pc # "hung") => <>(Returned \/ Propagated)
  /\ [](Returned => EachHandledOnce)

\* C18, witness: check_instances has returned with every instance handled.
C18_Witness ==
  /\ Returned
  /\ EachHandledOnce
  /\ \E i \in Instances : Stored(i)

\* C20: the pass of an instance closes every circuit the listing returned,
\* whatever its purpose: a circuit that is neither an introduction nor a
\* rendezvous circuit is closed too and contributes no snapshot, so once the
\* pass has ended no circuit that was listed is still live.
C20_EveryListedCircuitClosed ==
  \A i \in Instances :
    Stored(i) =>
      /\ \A k \in DOMAIN listed[i] :
           LET c == listed[i][k] IN
             /\ c \notin live
             /\ \E n \in DOMAIN trace :
                  trace[n] = Event(i, "close", "closed", c.id)
             /\ c.purpose \notin {IntroPurpose, RendPurpose} =>
                  ~ \E n \in DOMAIN trace :
                      trace[n].step = "snapshot" /\ trace[n].circ = c.id
      /\ Len(instances[i]["intro_circs"]) + Len(instances[i]["rend_circs"])
           = Len(OfPurpose(listed[i], IntroPurpose)) + Len(OfPurpose(listed[i], RendPurpose))

\* C20, witness: a pass that listed a circuit of another purpose next to an
\* introduction circuit has ended, with one snapshot stored and nothing live.
C20_Witness ==
  \E i \in Instances :
    /\ Stored(i)
    /\ Len(listed[i]) = 2
    /\ \E k \in DOMAIN listed[i] : listed[i][k].purpose = "GENERAL"
    /\ Len(instances[i]["intro_circs"]) = 1
    /\ instances[i]["rend_circs"] = <<>>
    /\ live = {}

\* Instance i completed without a pass over the circuits (the
\* descriptor-unavailable exit), so what was built during its probe is left.
NoPass(i) == Done(i) /\ ~Did(i, "list")

\* Instance j is the first after i whose get_circuits() returned.
NextPass(i, j) ==
  /\ i < j
  /\ Took(j, "list", "listed")
  /\ \A m \in (i + 1)..(j - 1) : ~Did(m, "list")

\* The pass of instance j closed circuit c.
ClosedBy(j, c) ==
  /\ c \notin live
  /\ \E n \in DOMAIN trace : trace[n] = Event(j, "close", "closed", c.id)

\* The record of instance j holds a snapshot of circuit c.
InRecord(j, c) ==
  /\ Has(instances[j], "intro_circs")
  /\ Has(instances[j], "rend_circs")
  /\ \/ \E n \in DOMAIN instances[j]["intro_circs"] :
          instances[j]["intro_circs"][n] = IntroSnapshot(c)
     \/ \E n \in DOMAIN instances[j]["rend_circs"] :
          instances[j]["rend_circs"][n] = RendSnapshot(c)

\* C19, as stated: a circuit built while instance i was processed and not
\* closed then is, once the next instance j that reaches the enumeration has
\* completed, in the record of j and closed by j.
C19_LeftoverInNextRecord ==
  \A id \in DOMAIN born : \A j \in Instances :
    (NoPass(born[id]) /\ NextPass(born[id], j) /\ Done(j)) =>
      \E k \in DOMAIN listed[j] :
        /\ listed[j][k].id = id
        /\ ClosedBy(j, listed[j][k])
        /\ InRecord(j, listed[j][k])

\* C19, amended: such a circuit is listed by the next instance j that
\* reaches the enumeration (the daemon here drops no circuit between two
\* passes); when the pass of j runs to its end, the circuit has been closed
\* by j, and it is in the record of j exactly when it is an introduction or
\* a rendezvous circuit.
C19_LeftoverListedByNext ==
  \A id \in DOMAIN born : \A j \in Instances :
    (NoPass(born[id]) /\ NextPass(born[id], j)) =>
      \E k \in DOMAIN listed[j] :
        LET c == listed[j][k] IN
          /\ c.id = id
          /\ Stored(j) =>
               /\ ClosedBy(j, c)
               /\ InRecord(j, c) <=> c.purpose \in {IntroPurpose, RendPurpose}

\* C19, witness: an introduction circuit was built while the first instance
\* was probed, the first instance left by the descriptor-unavailable exit,
\* and the second instance stored the circuit's snapshot and closed it.
C19_Witness ==
  /\ NumInstances >= 2
  /\ Took(1, "fetch", "unavailable")
  /\ Stored(2)
  /\ \E k \in DOMAIN listed[2] :
       /\ born[listed[2][k].id] = 1
       /\ listed[2][k].purpose = IntroPurpose
       /\ InRecord(2, listed[2][k])
       /\ ClosedBy(2, listed[2][k])

====
